---- MODULE Spec2Model ----
(***************************************************************************)
(* Super-Sandbox pong (src/main.py): ball, paddles, players, the event     *)
(* scheduler and the round controller (GameView.on_update).                *)
(*                                                                         *)
(* The program computes with floats; the model computes with fixed-point   *)
(* integers:                                                               *)
(*   time      in quanta of 1/TPS second   (the 1/30 s cap is 2 quanta)    *)
(*   velocity  in units of 1/VEL pixel per second                          *)
(*   position  in units of 1/PX pixel, PX = VEL * TPS                      *)
(* so that x += vx * dt and vy += GRAVITY * dt are exact. Products with a  *)
(* material coefficient, unit vectors and square roots round to the        *)
(* nearest unit, as the float operations round to the nearest float.       *)
(***************************************************************************)
EXTENDS Integers, Sequences, FiniteSets, TLC

\* ---------------------------------------------------------------- scales
TPS == 60
VEL == 3
PX == VEL * TPS
\* unit vectors (normalize) carry NORM units per 1.0
NORM == 16384
\* the segment parameter t of closest_point_on_segment carries TSCALE units per 1.0
TSCALE == 4096
\* material coefficients and damping constants are in hundredths
PCT == 100

\* ------------------------------------------------------- program constants
SCREEN_WIDTH == 1280
SCREEN_HEIGHT == 720
LEFT_PANEL_WIDTH == 260
BOTTOM_PANEL_HEIGHT == 120
MARGIN == 20

FIELD_LEFT == (LEFT_PANEL_WIDTH + MARGIN) * PX
FIELD_RIGHT == (SCREEN_WIDTH - MARGIN) * PX
FIELD_BOTTOM == (BOTTOM_PANEL_HEIGHT + MARGIN) * PX
FIELD_TOP == (SCREEN_HEIGHT - MARGIN) * PX
FIELD_CENTER_X == (FIELD_LEFT + FIELD_RIGHT) \div 2
FIELD_CENTER_Y == (FIELD_BOTTOM + FIELD_TOP) \div 2

\* px/s^2, px, px/s, px/s, hundredths
GRAVITY == -1400
BALL_RADIUS == 12
BALL_BASE_SPEED == 650
BALL_MAX_SPEED == 1600
BALL_BOUNCE_DAMP == 98

VERT_PADDLE_LENGTH == 170
VERT_PADDLE_THICKNESS == 18
VERT_PADDLE_TILT_DEG == 30
HOR_PADDLE_WIDTH == 100
HOR_PADDLE_THICKNESS == 18
\* VerticalPaddle.speed, HorizontalPaddle.speed (px/s)
VERT_PADDLE_SPEED == 900
HOR_PADDLE_SPEED == 900

\* seconds
EVENT_INTERVAL == 10
EVENT_WARNING_TIME == 1
FIRE_STUN_DURATION == 3
COUNTDOWN_START == 3
LAST_EVENT_TTL == 2
\* on_update: dt = min(dt, 1 / 30)
MAX_DT_DENOM == 30
MAX_DT == TPS \div MAX_DT_DENOM

\* cos and sin of VERT_PADDLE_TILT_DEG, in 1/10000
TILT_COS == 8660
TILT_SIN == 5000
TRIG == 10000

\* collide_ball_with_horizontal_paddle: rvy = abs(rvy) + 520.0 (px/s)
UPKICK == 520
\* on_update: wall bounce * 0.85, hit boost * 1.01 (hundredths)
WALL_DAMP == 85
HIT_BOOST == 101
\* _cpu_control dead zones (px)
CPU_DEAD_VERT == 10
CPU_DEAD_HORZ == 8
\* the 0.5 px offset that separates the ball from what it hit, in position units
EPS_POS == PX \div 2

Sides == {"left", "right"}
Other(s) == IF s = "left" THEN "right" ELSE "left"

\* MATERIALS: "wood" is "дерево", "steel" is "сталь", "rubber" is "резина"
MaterialNames == {"wood", "steel", "rubber"}
MATERIALS ==
  [ wood   |-> [bounce |-> 95,  power |-> 100, friction |-> 10, burnable |-> TRUE],
    steel  |-> [bounce |-> 105, power |-> 105, friction |-> 2,  burnable |-> FALSE],
    rubber |-> [bounce |-> 120, power |-> 110, friction |-> 5,  burnable |-> FALSE] ]

\* ----------------------------------------------------------- arithmetic
Abs(a) == IF a < 0 THEN -a ELSE a
Min(a, b) == IF a <= b THEN a ELSE b
Max(a, b) == IF a >= b THEN a ELSE b
Sign(a) == IF a < 0 THEN -1 ELSE IF a > 0 THEN 1 ELSE 0

\* a / b rounded to the nearest integer (b > 0), as a float quotient is rounded
RDiv(a, b) == Sign(a) * ((2 * Abs(a) + b) \div (2 * b))

clamp(v, a, b) == Max(a, Min(b, v))

RECURSIVE SqrtIter(_, _, _)
SqrtIter(n, lo, hi) ==
  IF lo >= hi THEN lo
  ELSE LET mid == (lo + hi + 1) \div 2
       IN IF mid * mid <= n THEN SqrtIter(n, mid, hi) ELSE SqrtIter(n, lo, mid - 1)

\* math.sqrt, rounded down to a whole unit
ISqrt(n) == SqrtIter(n, 0, Min(n, 46340))

vec_length(x, y) == ISqrt(x * x + y * y)

\* a unit vector in NORM units; (0, 0) for the zero vector
normalize(x, y) ==
  LET l == vec_length(x, y)
  IN IF l = 0 THEN [x |-> 0, y |-> 0]
     ELSE [x |-> RDiv(x * NORM, l), y |-> RDiv(y * NORM, l)]

\* n is a unit vector in NORM units
reflect(vx, vy, nx, ny) ==
  LET dot == RDiv(vx * nx + vy * ny, NORM)
  IN [x |-> vx - RDiv(2 * dot * nx, NORM), y |-> vy - RDiv(2 * dot * ny, NORM)]

\* ------------------------------------------------------------------ Ball
\* random.uniform(-0.35, 0.35): the two ends and the middle, as cos and sin in 1/TRIG
LaunchAngles ==
  { [cos |-> 9394, sin |-> -3429], [cos |-> 10000, sin |-> 0], [cos |-> 9394, sin |-> 3429] }
\* random.choice([-1, 1])
LaunchDirs == {-1, 1}

Ball_init == [x |-> FIELD_CENTER_X, y |-> FIELD_CENTER_Y, vx |-> 0, vy |-> 0]

Ball_reset(dir_x, angle) ==
  [ x  |-> FIELD_CENTER_X,
    y  |-> FIELD_CENTER_Y,
    vx |-> dir_x * RDiv(BALL_BASE_SPEED * VEL * angle.cos, TRIG),
    vy |-> RDiv(BALL_BASE_SPEED * VEL * angle.sin * 3, TRIG * 10) ]

\* sp > BALL_MAX_SPEED, compared on the squares
TooFast(vx, vy) == vx * vx + vy * vy > (BALL_MAX_SPEED * VEL) * (BALL_MAX_SPEED * VEL)

\* the clamping branch of Ball.update: (nx, ny) * BALL_MAX_SPEED
ClampSpeed(vx, vy) ==
  LET n == normalize(vx, vy)
  IN [ vx |-> RDiv(n.x * BALL_MAX_SPEED * VEL, NORM),
       vy |-> RDiv(n.y * BALL_MAX_SPEED * VEL, NORM) ]

\* variant: Ball.update without the speed clamp
Ball_update_unclamped(b, dt) ==
  [ x |-> b.x + b.vx * dt, y |-> b.y + (b.vy + (GRAVITY * VEL * dt) \div TPS) * dt,
    vx |-> b.vx, vy |-> b.vy + (GRAVITY * VEL * dt) \div TPS ]

\* variant: Ball.update that moves the ball before it applies gravity
Ball_update_position_first(b, dt) ==
  [ x |-> b.x + b.vx * dt, y |-> b.y + b.vy * dt,
    vx |-> IF TooFast(b.vx, b.vy + (GRAVITY * VEL * dt) \div TPS)
           THEN ClampSpeed(b.vx, b.vy + (GRAVITY * VEL * dt) \div TPS).vx ELSE b.vx,
    vy |-> IF TooFast(b.vx, b.vy + (GRAVITY * VEL * dt) \div TPS)
           THEN ClampSpeed(b.vx, b.vy + (GRAVITY * VEL * dt) \div TPS).vy
           ELSE b.vy + (GRAVITY * VEL * dt) \div TPS ]

Ball_update(b, dt) ==
  LET vy1 == b.vy + (GRAVITY * VEL * dt) \div TPS
      x1  == b.x + b.vx * dt
      y1  == b.y + vy1 * dt
      v   == IF TooFast(b.vx, vy1) THEN ClampSpeed(b.vx, vy1) ELSE [vx |-> b.vx, vy |-> vy1]
  IN [x |-> x1, y |-> y1, vx |-> v.vx, vy |-> v.vy]

\* --------------------------------------------------------------- paddles
VertX(side) == IF side = "left" THEN FIELD_LEFT + 60 * PX ELSE FIELD_RIGHT - 60 * PX
VertPad == (VERT_PADDLE_LENGTH * PX) \div 2
VertMinY == FIELD_BOTTOM + VertPad
VertMaxY == FIELD_TOP - VertPad

HorzY == FIELD_BOTTOM + 220 * PX
HorzMinX(side) ==
  IF side = "left" THEN FIELD_LEFT + (HOR_PADDLE_WIDTH * PX) \div 2 ELSE FIELD_CENTER_X + 40 * PX
HorzMaxX(side) ==
  IF side = "left" THEN FIELD_CENTER_X - 40 * PX ELSE FIELD_RIGHT - (HOR_PADDLE_WIDTH * PX) \div 2

VerticalPaddle_init(side) ==
  [y |-> FIELD_CENTER_Y, material_name |-> "wood", enabled |-> TRUE, burned_out |-> FALSE]

HorizontalPaddle_init(side) ==
  [ x |-> IF side = "left" THEN HorzMinX(side) + 50 * PX ELSE HorzMaxX(side) - 50 * PX,
    material_name |-> "wood", enabled |-> TRUE, burned_out |-> FALSE ]

\* set_material of either paddle: the name is stored unchecked
VerticalPaddle_set_material(p, name) ==
  [p EXCEPT !.material_name = name, !.burned_out = FALSE]

HorizontalPaddle_set_material(p, name) ==
  [p EXCEPT !.material_name = name, !.burned_out = FALSE]

\* variant: VerticalPaddle.update without the clamp
VerticalPaddle_update_unclamped(p, dt, move_dir) ==
  IF ~p.enabled \/ p.burned_out THEN p
  ELSE [p EXCEPT !.y = p.y + move_dir * VERT_PADDLE_SPEED * VEL * dt]

\* variant: VerticalPaddle.update that moves a burned-out paddle
VerticalPaddle_update_burned(p, dt, move_dir) ==
  IF ~p.enabled THEN p
  ELSE [p EXCEPT !.y = clamp(p.y + move_dir * VERT_PADDLE_SPEED * VEL * dt, VertMinY, VertMaxY)]

VerticalPaddle_update(p, dt, move_dir) ==
  IF ~p.enabled \/ p.burned_out THEN p
  ELSE [p EXCEPT !.y = clamp(p.y + move_dir * VERT_PADDLE_SPEED * VEL * dt, VertMinY, VertMaxY)]

\* variant: HorizontalPaddle.update clamped to the whole field, not to the side's range
HorizontalPaddle_update_field(p, side, dt, move_dir) ==
  IF ~p.enabled \/ p.burned_out THEN p
  ELSE [p EXCEPT !.x = clamp(p.x + move_dir * HOR_PADDLE_SPEED * VEL * dt,
                             HorzMinX("left"), HorzMaxX("right"))]

HorizontalPaddle_update(p, side, dt, move_dir) ==
  IF ~p.enabled \/ p.burned_out THEN p
  ELSE [p EXCEPT !.x = clamp(p.x + move_dir * HOR_PADDLE_SPEED * VEL * dt,
                             HorzMinX(side), HorzMaxX(side))]

\* half of the segment, from the centre to its second end
SegHalf(side) ==
  [ dx |-> (IF side = "right" THEN -1 ELSE 1) * RDiv(TILT_COS * VertPad, TRIG),
    dy |-> RDiv(TILT_SIN * VertPad, TRIG) ]

get_segment(p, side) ==
  LET h == SegHalf(side)
  IN [x1 |-> VertX(side) - h.dx, y1 |-> p.y - h.dy, x2 |-> VertX(side) + h.dx, y2 |-> p.y + h.dy]

\* ---------------------------------------------------------------- Player
Player_init(side, is_cpu) ==
  [ vert |-> VerticalPaddle_init(side), horz |-> HorizontalPaddle_init(side),
    score |-> 0, move_vert |-> 0, move_horz |-> 0, stun_timer |-> 0, is_cpu |-> is_cpu ]

\* variant: Player.set_material that sets the vertical paddle only
Player_set_material_vert(p, name) ==
  [p EXCEPT !.vert = VerticalPaddle_set_material(@, name)]

Player_set_material(p, name) ==
  [p EXCEPT !.vert = VerticalPaddle_set_material(@, name),
            !.horz = HorizontalPaddle_set_material(@, name)]

get_material(p) == p.vert.material_name

\* variant: Player.set_stun as a plain assignment
Player_set_stun_assign(p, duration) == [p EXCEPT !.stun_timer = duration]

Player_set_stun(p, duration) == [p EXCEPT !.stun_timer = Max(p.stun_timer, duration)]

cpu_control(p, side, b) ==
  LET mv == IF b.y > p.vert.y + CPU_DEAD_VERT * PX THEN 1
            ELSE IF b.y < p.vert.y - CPU_DEAD_VERT * PX THEN -1 ELSE 0
      target_x == clamp(b.x, HorzMinX(side), HorzMaxX(side))
      mh == IF target_x > p.horz.x + CPU_DEAD_HORZ * PX THEN 1
            ELSE IF target_x < p.horz.x - CPU_DEAD_HORZ * PX THEN -1 ELSE 0
  IN [p EXCEPT !.move_vert = mv, !.move_horz = mh]

Player_update(p, side, dt, b) ==
  LET p1 == IF p.stun_timer > 0
            THEN [p EXCEPT !.stun_timer = @ - dt, !.vert.enabled = FALSE, !.horz.enabled = FALSE,
                           !.move_vert = 0, !.move_horz = 0]
            ELSE [p EXCEPT !.vert.enabled = TRUE, !.horz.enabled = TRUE]
      p2 == IF p1.is_cpu THEN cpu_control(p1, side, b) ELSE p1
  IN [p2 EXCEPT !.vert = VerticalPaddle_update(@, dt, p2.move_vert),
                !.horz = HorizontalPaddle_update(@, side, dt, p2.move_horz)]

\* the four paddles, and the player each belongs to
PaddleIds == {"left_vert", "right_vert", "left_horz", "right_horz"}

Owner(id) == IF id \in {"left_vert", "left_horz"} THEN "left" ELSE "right"

PaddlesOf(side) == {id \in PaddleIds : Owner(id) = side}

\* the paddle record a paddle id names
PaddleOf(pl, id) ==
  IF id = "left_vert" THEN pl["left"].vert
  ELSE IF id = "right_vert" THEN pl["right"].vert
  ELSE IF id = "left_horz" THEN pl["left"].horz
  ELSE pl["right"].horz

\* ---------------------------------------------------------------- events
\* EventManager.events: the registry holds one kind
Events == {"fire"}

\* variant: a fire that burns and stuns every player, whatever the material
FireEvent_apply_all(pl) ==
  [ s \in Sides |->
      Player_set_stun([pl[s] EXCEPT !.vert.burned_out = TRUE, !.horz.burned_out = TRUE],
                      FIRE_STUN_DURATION * TPS) ]

FireEvent_apply(pl) ==
  [ s \in Sides |->
      IF get_material(pl[s]) = "wood"
      THEN Player_set_stun([pl[s] EXCEPT !.vert.burned_out = TRUE, !.horz.burned_out = TRUE],
                           FIRE_STUN_DURATION * TPS)
      ELSE pl[s] ]

\* the paddles FireEvent.apply sets burned_out
FireTargets(pl) == {id \in PaddleIds : get_material(pl[Owner(id)]) = "wood"}

\* GameEvent.apply, dispatched on the event's kind
Event_apply(ev, pl) == IF ev = "fire" THEN FireEvent_apply(pl) ELSE pl

EventManager_init ==
  [next_event_in |-> EVENT_INTERVAL * TPS, warning_active |-> FALSE, warning_timer |-> 0]

\* variant: EventManager.update whose warning chooses no pending event
EventManager_update_no_choice(g, dt, ev) ==
  LET nei   == g.em.next_event_in - dt
      warn  == ~g.em.warning_active /\ nei <= EVENT_WARNING_TIME * TPS
      wa1   == IF warn THEN TRUE ELSE g.em.warning_active
      wt1   == IF warn THEN EVENT_WARNING_TIME * TPS ELSE g.em.warning_timer
      wt2   == IF wa1 THEN wt1 - dt ELSE wt1
      wa2   == IF wa1 /\ wt2 <= 0 THEN FALSE ELSE wa1
      fire  == nei <= 0
      fallb == fire /\ g.pending_event = "none"
      pe2   == IF fallb THEN ev ELSE g.pending_event
  IN [ g |-> [g EXCEPT
                !.em = [next_event_in |-> IF fire THEN EVENT_INTERVAL * TPS ELSE nei,
                        warning_active |-> wa2, warning_timer |-> wt2],
                !.player = IF fire THEN Event_apply(pe2, g.player) ELSE g.player,
                !.last_event_timer = IF fire THEN LAST_EVENT_TTL * TPS ELSE g.last_event_timer,
                !.pending_event = IF fire THEN "none" ELSE g.pending_event],
       warned |-> warn, applied |-> fire, fallback |-> fallb,
       event |-> IF fire THEN pe2 ELSE "none",
       burned |-> IF fire /\ pe2 = "fire" THEN FireTargets(g.player) ELSE {} ]

\* EventManager.update on the game record g; ev is what random.choice(self.events)
\* returns if it is called. The result also reports what the call did.
EventManager_update(g, dt, ev) ==
  LET nei   == g.em.next_event_in - dt
      warn  == ~g.em.warning_active /\ nei <= EVENT_WARNING_TIME * TPS
      wa1   == IF warn THEN TRUE ELSE g.em.warning_active
      wt1   == IF warn THEN EVENT_WARNING_TIME * TPS ELSE g.em.warning_timer
      pe1   == IF warn THEN ev ELSE g.pending_event
      wt2   == IF wa1 THEN wt1 - dt ELSE wt1
      wa2   == IF wa1 /\ wt2 <= 0 THEN FALSE ELSE wa1
      fire  == nei <= 0
      fallb == fire /\ pe1 = "none"
      pe2   == IF fallb THEN ev ELSE pe1
  IN [ g |-> [g EXCEPT
                !.em = [next_event_in |-> IF fire THEN EVENT_INTERVAL * TPS ELSE nei,
                        warning_active |-> wa2, warning_timer |-> wt2],
                !.player = IF fire THEN Event_apply(pe2, g.player) ELSE g.player,
                !.last_event_timer = IF fire THEN LAST_EVENT_TTL * TPS ELSE g.last_event_timer,
                !.pending_event = IF fire THEN "none" ELSE pe1],
       warned |-> warn, applied |-> fire, fallback |-> fallb,
       event |-> IF fire THEN pe2 ELSE "none",
       burned |-> IF fire /\ pe2 = "fire" THEN FireTargets(g.player) ELSE {} ]

\* ------------------------------------------------------------ collisions
\* Each function is written as a chain of operators, one per group of statements, the
\* values computed so far being the parameters of the next.

\* t = clamp(num / denom, 0.0, 1.0), in TSCALE units
SegmentParam(num, denom) ==
  IF num <= 0 THEN 0
  ELSE IF num >= denom THEN TSCALE
  ELSE clamp(RDiv(num, denom \div TSCALE), 0, TSCALE)

PointAt(x1, y1, vx, vy, t) ==
  [cx |-> x1 + RDiv(t * vx, TSCALE), cy |-> y1 + RDiv(t * vy, TSCALE), t |-> t]

ClosestAlong(px, py, x1, y1, vx, vy) ==
  IF vx * vx + vy * vy = 0 THEN [cx |-> x1, cy |-> y1, t |-> 0]
  ELSE PointAt(x1, y1, vx, vy,
               SegmentParam((px - x1) * vx + (py - y1) * vy, vx * vx + vy * vy))

closest_point_on_segment(px, py, x1, y1, x2, y2) ==
  ClosestAlong(px, py, x1, y1, x2 - x1, y2 - y1)

\* ball.radius + capsule_r
VertReach == BALL_RADIUS * PX + (VERT_PADDLE_THICKNESS * PX) \div 2

\* A ball this far from the paddle's centre on either axis is farther than VertReach
\* from every point of the segment: the distance test fails without computing the
\* distance (whose square would leave the integer range).
FarFromVertical(b, p, side) ==
  \/ Abs(b.x - VertX(side)) > VertPad + 2 * VertReach
  \/ Abs(b.y - p.y) > VertPad + 2 * VertReach

\* paddle.material: MATERIALS[self.material_name] raises KeyError for an unknown name
HasMaterial(p) == p.material_name \in MaterialNames

\* The result of a resolver: the ball, whether a collision was registered, and the
\* exception that left the function ("none" when it returned).
NoCollision(b) == [ball |-> b, hit |-> FALSE, err |-> "none"]

\* nx, ny = normalize(dx, dy), (1.0, 0.0) for the zero vector
ContactNormal(n0) == IF n0.x = 0 /\ n0.y = 0 THEN [x |-> NORM, y |-> 0] ELSE n0

\* ball.x += nx * (penetration + 0.5); ball.y += ny * (penetration + 0.5)
PushedOut(b, n, penetration) ==
  [b EXCEPT !.x = @ + RDiv(n.x * (penetration + EPS_POS), NORM),
            !.y = @ + RDiv(n.y * (penetration + EPS_POS), NORM)]

\* rv *= mat.bounce; rv *= mat.power
Bounced(r, mat) ==
  [ x |-> RDiv(RDiv(r.x * mat.bounce, PCT) * mat.power, PCT),
    y |-> RDiv(RDiv(r.y * mat.bounce, PCT) * mat.power, PCT) ]

\* rv -= tang * mat.friction * (tx, ty), then * BALL_BOUNCE_DAMP
Damped(rv, tang, tx, ty, mat) ==
  [ x |-> RDiv((rv.x - RDiv(RDiv(tang * mat.friction, PCT) * tx, NORM)) * BALL_BOUNCE_DAMP, PCT),
    y |-> RDiv((rv.y - RDiv(RDiv(tang * mat.friction, PCT) * ty, NORM)) * BALL_BOUNCE_DAMP, PCT) ]

\* tx, ty = -ny, nx; tang = rvx * tx + rvy * ty
WithFriction(rv, n, mat) ==
  Damped(rv, RDiv(rv.x * (-n.y) + rv.y * n.x, NORM), -n.y, n.x, mat)

VertResponse(b, n, mat) == WithFriction(Bounced(reflect(b.vx, b.vy, n.x, n.y), mat), n, mat)

WithVelocity(b, v) == [b EXCEPT !.vx = v.x, !.vy = v.y]

\* the body of "if dist <= ball.radius + capsule_r"
VertCollide(b, p, dist, n) ==
  IF dist > VertReach THEN NoCollision(b)
  ELSE IF ~HasMaterial(p)
  THEN [ball |-> PushedOut(b, n, VertReach - dist), hit |-> FALSE, err |-> "KeyError"]
  ELSE [ ball |-> WithVelocity(PushedOut(b, n, VertReach - dist),
                               VertResponse(b, n, MATERIALS[p.material_name])),
         hit |-> TRUE, err |-> "none" ]

VertContact(b, p, dx, dy) ==
  VertCollide(b, p, vec_length(dx, dy), ContactNormal(normalize(dx, dy)))

VertClosest(b, p, c) == VertContact(b, p, b.x - c.cx, b.y - c.cy)

VertSegment(b, p, seg) ==
  VertClosest(b, p, closest_point_on_segment(b.x, b.y, seg.x1, seg.y1, seg.x2, seg.y2))

\* variant: the vertical resolver without its burned_out test
collide_ball_with_vertical_paddle_burned(b, p, side) ==
  IF FarFromVertical(b, p, side) THEN NoCollision(b)
  ELSE VertSegment(b, p, get_segment(p, side))

collide_ball_with_vertical_paddle(b, p, side) ==
  IF p.burned_out \/ FarFromVertical(b, p, side) THEN NoCollision(b)
  ELSE VertSegment(b, p, get_segment(p, side))

HorzHalfW == (HOR_PADDLE_WIDTH * PX) \div 2
HorzHalfH == (HOR_PADDLE_THICKNESS * PX) \div 2

\* the overlap test of collide_ball_with_horizontal_paddle
OverlapsHorizontal(b, p) ==
  /\ p.x - HorzHalfW - BALL_RADIUS * PX <= b.x
  /\ b.x <= p.x + HorzHalfW + BALL_RADIUS * PX
  /\ HorzY - HorzHalfH - BALL_RADIUS * PX <= b.y
  /\ b.y <= HorzY + HorzHalfH + BALL_RADIUS * PX

\* ball.y >= paddle.y: the normal is (0, 1) and the ball goes above the paddle;
\* otherwise the normal is (0, -1) and the ball goes below it
HorzNormalY(b) == IF b.y >= HorzY THEN NORM ELSE -NORM
HorzPlaced(b) ==
  [b EXCEPT !.y = IF b.y >= HorzY THEN HorzY + HorzHalfH + BALL_RADIUS * PX + EPS_POS
                  ELSE HorzY - HorzHalfH - BALL_RADIUS * PX - EPS_POS]

\* variant: the horizontal response without the 520.0 added to abs(rvy)
HorzResponse_no_kick(r, mat) ==
  [ x |-> RDiv(RDiv(RDiv(r.x * mat.bounce, PCT) * (PCT - mat.friction), PCT)
                 * BALL_BOUNCE_DAMP, PCT),
    y |-> RDiv(RDiv(Abs(r.y) * (mat.bounce * mat.power), PCT * PCT) * BALL_BOUNCE_DAMP, PCT) ]

\* rvy = abs(rvy) + 520.0; rvy *= mat.bounce * mat.power;
\* rvx *= mat.bounce; rvx *= (1.0 - mat.friction); then * BALL_BOUNCE_DAMP
HorzResponse(r, mat) ==
  [ x |-> RDiv(RDiv(RDiv(r.x * mat.bounce, PCT) * (PCT - mat.friction), PCT)
                 * BALL_BOUNCE_DAMP, PCT),
    y |-> RDiv(RDiv((Abs(r.y) + UPKICK * VEL) * (mat.bounce * mat.power), PCT * PCT)
                 * BALL_BOUNCE_DAMP, PCT) ]

\* variant: a horizontal resolver that steers the ball by the offset of the contact
\* from the paddle's centre
collide_ball_with_horizontal_paddle_steered(b, p) ==
  IF p.burned_out \/ ~OverlapsHorizontal(b, p) THEN NoCollision(b)
  ELSE IF ~HasMaterial(p)
  THEN [ball |-> HorzPlaced(b), hit |-> FALSE, err |-> "KeyError"]
  ELSE [ ball |-> WithVelocity(HorzPlaced(b),
                               HorzResponse([x |-> b.vx + (b.x - p.x) \div TPS, y |-> -b.vy],
                                            MATERIALS[p.material_name])),
         hit |-> TRUE, err |-> "none" ]

collide_ball_with_horizontal_paddle(b, p) ==
  IF p.burned_out \/ ~OverlapsHorizontal(b, p) THEN NoCollision(b)
  ELSE IF ~HasMaterial(p)
  THEN [ball |-> HorzPlaced(b), hit |-> FALSE, err |-> "KeyError"]
  ELSE [ ball |-> WithVelocity(HorzPlaced(b),
                               HorzResponse(reflect(b.vx, b.vy, 0, HorzNormalY(b)),
                                            MATERIALS[p.material_name])),
         hit |-> TRUE, err |-> "none" ]

\* ------------------------------------------------------- round controller
\* on_update: the top and bottom walls
WallBounce(b) ==
  IF b.y - BALL_RADIUS * PX <= FIELD_BOTTOM
  THEN [b EXCEPT !.y = FIELD_BOTTOM + BALL_RADIUS * PX + EPS_POS,
                 !.vy = RDiv(Abs(b.vy) * WALL_DAMP, PCT)]
  ELSE IF b.y + BALL_RADIUS * PX >= FIELD_TOP
  THEN [b EXCEPT !.y = FIELD_TOP - BALL_RADIUS * PX - EPS_POS,
                 !.vy = -RDiv(Abs(b.vy) * WALL_DAMP, PCT)]
  ELSE b

\* the resolver on_update calls for a paddle
Resolve(b, pl, id) ==
  IF id = "left_vert" THEN collide_ball_with_vertical_paddle(b, pl["left"].vert, "left")
  ELSE IF id = "right_vert" THEN collide_ball_with_vertical_paddle(b, pl["right"].vert, "right")
  ELSE IF id = "left_horz" THEN collide_ball_with_horizontal_paddle(b, pl["left"].horz)
  ELSE collide_ball_with_horizontal_paddle(b, pl["right"].horz)

\* hit |= <resolver call>: acc is the ball, the exception and the set of paddles hit
\* so far, r the result of the call for paddle id
Accumulate(acc, id, r) ==
  [ball |-> r.ball, err |-> r.err, hits |-> IF r.hit THEN acc.hits \cup {id} ELSE acc.hits]

\* an exception ends the sequence of calls
CollideWith(acc, pl, id) ==
  IF acc.err # "none" THEN acc ELSE Accumulate(acc, id, Resolve(acc.ball, pl, id))

\* on_update: the four resolver calls in their order
CollideAll(b, pl) ==
  CollideWith(
    CollideWith(
      CollideWith(
        CollideWith([ball |-> b, err |-> "none", hits |-> {}], pl, "left_vert"),
        pl, "right_vert"),
      pl, "left_horz"),
    pl, "right_horz")

\* variant: _reset_round without the reset of the stun timers
reset_round_keeps_stun(g, first) ==
  [g EXCEPT
     !.ball = Ball_init,
     !.state = "countdown",
     !.countdown = COUNTDOWN_START * TPS,
     !.player = [ s \in Sides |->
                    [g.player[s] EXCEPT !.vert.burned_out = FALSE, !.horz.burned_out = FALSE,
                                        !.score = IF first THEN 0 ELSE @] ] ]

reset_round(g, first) ==
  [g EXCEPT
     !.ball = Ball_init,
     !.state = "countdown",
     !.countdown = COUNTDOWN_START * TPS,
     !.player = [ s \in Sides |->
                    [g.player[s] EXCEPT !.vert.burned_out = FALSE, !.horz.burned_out = FALSE,
                                        !.stun_timer = 0,
                                        !.score = IF first THEN 0 ELSE @] ] ]

UpdatePlayers(pl, dt, b) == [s \in Sides |-> Player_update(pl[s], s, dt, b)]

\* variant: a countdown that expires only once it is below 0
CountdownExpiry_late(g, cd, dir_x, angle) ==
  IF cd >= 0 THEN [g EXCEPT !.countdown = cd]
  ELSE [g EXCEPT !.countdown = cd, !.state = "playing", !.ball = Ball_reset(dir_x, angle)]

\* on_update in the countdown state, once self.countdown -= dt has given cd
CountdownExpiry(g, cd, dir_x, angle) ==
  IF cd > 0 THEN [g EXCEPT !.countdown = cd]
  ELSE [g EXCEPT !.countdown = cd, !.state = "playing", !.ball = Ball_reset(dir_x, angle)]

\* variant: a countdown tick that does not update the players
CountdownPlayers_frozen(g, dt) == g

CountdownPlayers(g, dt) == [g EXCEPT !.player = UpdatePlayers(g.player, dt, g.ball)]

\* on_update in the countdown state (after the last_event_timer step)
CountdownTick(g, dt, dir_x, angle) ==
  CountdownPlayers(CountdownExpiry(g, g.countdown - dt, dir_x, angle), dt)

\* the goal conditions of on_update
BeyondLeft(b) == b.x + BALL_RADIUS * PX < FIELD_LEFT
BeyondRight(b) == b.x - BALL_RADIUS * PX > FIELD_RIGHT

\* variant: goal detection that credits the goal and does not reset the round
GoalCheck_no_reset(g) ==
  IF BeyondLeft(g.ball)
  THEN [g |-> [g EXCEPT !.player["right"].score = @ + 1], goal |-> "right"]
  ELSE IF BeyondRight(g.ball)
  THEN [g |-> [g EXCEPT !.player["left"].score = @ + 1], goal |-> "left"]
  ELSE [g |-> g, goal |-> "none"]

\* on_update: goal detection on the game record after the collisions
GoalCheck(g) ==
  IF BeyondLeft(g.ball)
  THEN [g |-> reset_round([g EXCEPT !.player["right"].score = @ + 1], FALSE), goal |-> "right"]
  ELSE IF BeyondRight(g.ball)
  THEN [g |-> reset_round([g EXCEPT !.player["left"].score = @ + 1], FALSE), goal |-> "left"]
  ELSE [g |-> g, goal |-> "none"]

\* if hit: ball.vx *= 1.01; ball.vy *= 1.01
HitBoost(c) ==
  IF c.hits # {}
  THEN [c.ball EXCEPT !.vx = RDiv(@ * HIT_BOOST, PCT), !.vy = RDiv(@ * HIT_BOOST, PCT)]
  ELSE c.ball

SchedReport(e) ==
  [ warned |-> e.warned, applied |-> e.applied, fallback |-> e.fallback, event |-> e.event,
    burned |-> e.burned ]

\* What an on_update call did, beside the game g it leaves: the dt it used, the
\* scheduler's report, the paddles hit, the side that scored, the ball as Ball.update
\* left it and the ball as the collisions and the hit boost left it.
Report(g, dt, sched, hits, goal, updated, collided) ==
  [ g |-> g, dt |-> dt, sched |-> sched, hits |-> hits, goal |-> goal,
    updated |-> updated, collided |-> collided ]

\* the end of on_update: the boost and the goal detection, or the exception
PlayingGoal(g, dt, sched, c, b0, gc) ==
  Report(gc.g, dt, sched, c.hits, gc.goal, b0, HitBoost(c))

PlayingEnd(g, dt, sched, c, b0) ==
  IF c.err # "none"
  THEN Report([g EXCEPT !.ball = c.ball, !.err = c.err], dt, sched, c.hits, "none", b0, c.ball)
  ELSE PlayingGoal(g, dt, sched, c, b0, GoalCheck([g EXCEPT !.ball = HitBoost(c)]))

\* self.ball.update(dt), the walls and the four resolvers
PlayingBall(g, dt, sched, b0) ==
  PlayingEnd(g, dt, sched, CollideAll(WallBounce(b0), g.player), b0)

\* self.player_left.update(dt, self.ball); self.player_right.update(dt, self.ball)
PlayingPlayers(g, dt, sched) ==
  PlayingBall([g EXCEPT !.player = UpdatePlayers(g.player, dt, g.ball)], dt, sched,
              Ball_update(g.ball, dt))

PlayingSched(e, dt) == PlayingPlayers(e.g, dt, SchedReport(e))

\* on_update in the playing state (after the last_event_timer step)
PlayingTick(g, dt, ev) == PlayingSched(EventManager_update(g, dt, ev), dt)

NoSched ==
  [warned |-> FALSE, applied |-> FALSE, fallback |-> FALSE, event |-> "none", burned |-> {}]

\* if self.last_event_timer > 0: self.last_event_timer -= dt
LastEventStep(g, dt) ==
  IF g.last_event_timer > 0 THEN [g EXCEPT !.last_event_timer = @ - dt] ELSE g

\* variant: on_update without the return of the paused state
Dispatch_no_pause(g0, dt, ev, dir_x, angle) ==
  IF g0.state = "countdown"
  THEN Report(CountdownTick(g0, dt, dir_x, angle), dt, NoSched, {}, "none", g0.ball, g0.ball)
  ELSE PlayingTick(g0, dt, ev)

\* on_update once dt is capped and the last_event_timer step has given g0
Dispatch(g0, dt, ev, dir_x, angle) ==
  IF g0.state = "paused"
  THEN Report(g0, dt, NoSched, {}, "none", g0.ball, g0.ball)
  ELSE IF g0.state = "countdown"
  THEN Report(CountdownTick(g0, dt, dir_x, angle), dt, NoSched, {}, "none", g0.ball, g0.ball)
  ELSE PlayingTick(g0, dt, ev)

\* variant: on_update without the cap on dt
CapDt_none(dt_in) == dt_in

\* dt = min(dt, 1 / 30)
CapDt(dt_in) == Min(dt_in, MAX_DT)

\* GameView.on_update(dt_in). ev, dir_x and angle are the random draws the call may
\* make.
on_update(g, dt_in, ev, dir_x, angle) ==
  Dispatch(LastEventStep(g, CapDt(dt_in)), CapDt(dt_in), ev, dir_x, angle)

\* variant: a pause toggle that pauses from any state but paused
toggle_pause_any(st) == IF st = "paused" THEN "playing" ELSE "paused"

toggle_pause(st) ==
  IF st = "paused" THEN "playing" ELSE IF st = "playing" THEN "paused" ELSE st

\* ------------------------------------------------------------------ state
VARIABLES
  ball,                          \* GameView.ball: [x, y, vx, vy]
  player,                        \* player_left, player_right, by side
  em,                            \* GameView.event_manager (its elapsed-time field
                                 \* timer is written and never read: left out)
  pending_event,                 \* "none" or an event of Events
  last_event_timer,
  state,                         \* "countdown", "playing", "paused"
  countdown,
  selected_player_for_material,
  err,                           \* the exception that left the last call; "none"
  obs,                           \* history: the last call, its arguments, the game
                                 \* before it and what it reported
  hist,                          \* history: the scheduler's warnings and applications
  calls                          \* history: the numbers of ticks and of inputs so far

vars ==
  << ball, player, em, pending_event, last_event_timer, state, countdown,
     selected_player_for_material, err, obs, hist, calls >>

\* the game record the operators above work on
Game ==
  [ ball |-> ball, player |-> player, em |-> em, pending_event |-> pending_event,
    last_event_timer |-> last_event_timer, state |-> state, countdown |-> countdown,
    err |-> err ]

SetGame(g) ==
  /\ ball' = g.ball
  /\ player' = g.player
  /\ em' = g.em
  /\ pending_event' = g.pending_event
  /\ last_event_timer' = g.last_event_timer
  /\ state' = g.state
  /\ countdown' = g.countdown
  /\ err' = g.err

\* GameView.__init__(mode)
GameView_init(mode) ==
  [ ball |-> Ball_init,
    player |-> [s \in Sides |-> Player_init(s, s = "right" /\ mode = "cpu")],
    em |-> EventManager_init, pending_event |-> "none", last_event_timer |-> 0,
    state |-> "countdown", countdown |-> COUNTDOWN_START * TPS, err |-> "none" ]

\* GameView.on_show_view: _reset_round(first=True)
on_show_view(g) == reset_round(g, TRUE)

Modes == {"cpu", "pvp"}

\* obs before any call. last is the call before the last one: its operation, side and
\* argument, and the players' stun timers and the game before it.
ObsInit(g) ==
  [ op |-> "init", side |-> "none", arg |-> 0, name |-> "none", pre |-> g, dt |-> 0,
    sched |-> NoSched, hits |-> {}, goal |-> "none", updated |-> g.ball,
    collided |-> g.ball, ret |-> FALSE,
    last |-> [op |-> "init", side |-> "none", arg |-> 0, stun |-> [s \in Sides |-> 0],
              game |-> g] ]

Last ==
  [ op |-> obs.op, side |-> obs.side, arg |-> obs.arg,
    stun |-> [s \in Sides |-> obs.pre.player[s].stun_timer], game |-> obs.pre ]

\* obs of a call on the game g that reports nothing of its own
NoObs(g) == [ObsInit(g) EXCEPT !.last = Last]

\* inert: the paddles a fire event has set burned_out whose owner has selected no
\* material since
HistInit ==
  [ warnings |-> 0, age |-> EVENT_INTERVAL * TPS, applications |-> 0,
    at_apply |-> 0, age_at_apply |-> 0, fallbacks |-> 0, inert |-> {},
    fall |-> [t |-> 0, sq |-> 0, ok |-> FALSE], elapsed |-> 0 ]

\* elapsed: the sum of the dt that on_update used in its calls outside the paused
\* state.
\* fall: ok says that the ball was at rest at the field centre and that only
\* Ball.update calls have changed it since; t is the sum of their dt, sq the sum of
\* the squares of their dt
FallStart(b) == [t |-> 0, sq |-> 0, ok |-> b = Ball_init]

FallAfter(f, dt) == [f EXCEPT !.t = @ + dt, !.sq = @ + dt * dt]

\* hist after an EventManager.update call that used dt and reported r: warnings counts
\* the warning activations since the last application, age the time since the last
\* activation; at_apply and age_at_apply are their values at the last application.
HistAfter(h, r, dt) ==
  LET w == h.warnings + (IF r.warned THEN 1 ELSE 0)
      a == IF r.warned THEN 0 ELSE Min(h.age + dt, EVENT_INTERVAL * TPS)
  IN IF r.applied
     THEN [ warnings |-> 0, age |-> a, applications |-> h.applications + 1,
            at_apply |-> w, age_at_apply |-> a,
            fallbacks |-> h.fallbacks + (IF r.fallback THEN 1 ELSE 0),
            inert |-> h.inert \cup r.burned, fall |-> h.fall, elapsed |-> h.elapsed ]
     ELSE [h EXCEPT !.warnings = w, !.age = a]

\* hist of a behaviour that starts from the game g: a warning that is active in g
\* was activated once, warning_timer short of EVENT_WARNING_TIME ago; the paddles
\* burned out in g were burned by a fire event
HistOf(g) ==
  [HistInit EXCEPT
     !.warnings = IF g.em.warning_active THEN 1 ELSE 0,
     !.age = IF g.em.warning_active
             THEN EVENT_WARNING_TIME * TPS - g.em.warning_timer ELSE @,
     !.inert = {id \in PaddleIds : PaddleOf(g.player, id).burned_out},
     !.fall = FallStart(g.ball)]

StartFrom(g) ==
  /\ ball = g.ball
  /\ player = g.player
  /\ em = g.em
  /\ pending_event = g.pending_event
  /\ last_event_timer = g.last_event_timer
  /\ state = g.state
  /\ countdown = g.countdown
  /\ err = g.err
  /\ selected_player_for_material = "left"
  /\ obs = ObsInit(g)
  /\ hist = HistOf(g)
  /\ calls = [ticks |-> 0, inputs |-> 0]

\* ----------------------------------------------------------------- bounds
\* applications of an event after which the scheduler specification stops
MaxEvents == 2
\* on_update calls in one behaviour of the game's specification
MaxTicks == 2
\* key, button and pause inputs in one behaviour of the game's specification
MaxInputs == 1
\* direct calls in one behaviour of the harness's specification
MaxCalls == 2

\* ------------------------------------------------------------- the inputs
\* dt of a frame the host delivers within the cap: 0 < dt <= 1/30
TickDts == 1 .. MAX_DT

\* the game once the first countdown has expired and the ball is launched
Started(g, dir_x, angle) ==
  [g EXCEPT !.state = "playing", !.countdown = 0, !.ball = Ball_reset(dir_x, angle)]

\* GameView._apply_material(name), the material buttons' handler
apply_material ==
  /\ err = "none"
  /\ \E name \in MaterialNames :
       /\ player' = [player EXCEPT ![selected_player_for_material] =
                                      Player_set_material(@, name)]
       /\ obs' = [NoObs(Game) EXCEPT !.op = "set_material", !.name = name,
                                     !.side = selected_player_for_material]
  /\ hist' = [hist EXCEPT !.inert = @ \ PaddlesOf(selected_player_for_material)]
  /\ calls' = [calls EXCEPT !.inputs = @ + 1]
  /\ UNCHANGED << ball, em, pending_event, last_event_timer, state, countdown,
                  selected_player_for_material, err >>

\* GameView._toggle_material_target (the button and the TAB key)
toggle_material_target ==
  /\ err = "none"
  /\ selected_player_for_material' = Other(selected_player_for_material)
  /\ obs' = [NoObs(Game) EXCEPT !.op = "toggle_material_target"]
  /\ calls' = [calls EXCEPT !.inputs = @ + 1]
  /\ UNCHANGED << ball, player, em, pending_event, last_event_timer, state, countdown,
                  err, hist >>

\* ------------------------------------------- the scheduler's specification
\* the variables after an EventManager.update(dt) call that returned r
SchedDone(dt, r) ==
  /\ SetGame(r.g)
  /\ obs' = [NoObs(Game) EXCEPT !.op = "EventManager_update", !.arg = dt, !.dt = dt,
                                !.sched = SchedReport(r)]
  /\ hist' = HistAfter(hist, r, dt)

\* One EventManager.update call in the playing state, with a frame's dt.
EventManager_update_step ==
  /\ state = "playing"
  /\ err = "none"
  /\ hist.applications < MaxEvents
  /\ \E dt \in TickDts, ev \in Events : SchedDone(dt, EventManager_update(Game, dt, ev))
  /\ UNCHANGED << selected_player_for_material, calls >>

SchedSelect ==
  /\ hist.applications < MaxEvents
  /\ calls.inputs < 1
  /\ apply_material

InitSched ==
  StartFrom(Started(on_show_view(GameView_init("pvp")), 1, [cos |-> TRIG, sin |-> 0]))

NextSched == EventManager_update_step \/ SchedSelect

SpecSched == InitSched /\ [][NextSched]_vars

\* C1: at every application of an event, exactly one warning activation has happened
\* since the previous application (or the start), and it happened within the warning
\* window (EVENT_WARNING_TIME) before the application.
C1_OneWarningPerApplication ==
  hist.applications > 0 =>
    /\ hist.at_apply = 1
    /\ hist.age_at_apply <= EVENT_WARNING_TIME * TPS

\* ------------------------------------------------- the game's specification
\* The draws of Ball.reset, made only by the call in which the countdown expires.
Launches(dt_in) ==
  IF state = "countdown" /\ countdown - Min(dt_in, MAX_DT) <= 0
  THEN {[dir |-> d, angle |-> a] : d \in LaunchDirs, a \in LaunchAngles}
  ELSE {[dir |-> 1, angle |-> [cos |-> TRIG, sin |-> 0]]}

\* the variables after an on_update(dt_in) call that reported r
OnUpdateDone(dt_in, r) ==
  /\ SetGame(r.g)
  /\ obs' = [ op |-> "on_update", side |-> "none", arg |-> dt_in, name |-> "none",
              pre |-> Game, dt |-> r.dt, sched |-> r.sched, hits |-> r.hits,
              goal |-> r.goal, updated |-> r.updated, collided |-> r.collided,
              ret |-> FALSE, last |-> Last ]
  /\ hist' = [(IF state = "playing" THEN HistAfter(hist, r.sched, r.dt) ELSE hist)
                EXCEPT !.fall = FallStart(r.g.ball),
                       !.elapsed = IF state = "paused" THEN @ ELSE @ + r.dt]

\* One GameView.on_update call with a dt of dts.
OnUpdateStep(dts) ==
  /\ err = "none"
  /\ \E dt_in \in dts, ev \in Events : \E l \in Launches(dt_in) :
       OnUpdateDone(dt_in, on_update(Game, dt_in, ev, l.dir, l.angle))
  /\ calls' = [calls EXCEPT !.ticks = @ + 1]
  /\ UNCHANGED selected_player_for_material

\* the frames the host delivers: dt >= 0; a zero frame, one within the cap, one above
HostDts == {0, MAX_DT - 1, MAX_DT + 1}

Tick ==
  /\ calls.ticks < MaxTicks
  /\ OnUpdateStep(HostDts)

\* on_key_press for a movement key: W/S, A/D on the left, the arrows on the right
\* (ignored when the right player is the CPU)
key_press ==
  /\ err = "none"
  /\ calls.inputs < MaxInputs
  /\ \E s \in Sides, axis \in {"move_vert", "move_horz"}, d \in {-1, 1} :
       /\ ~player[s].is_cpu
       /\ player' = [player EXCEPT ![s][axis] = d]
       /\ obs' = [NoObs(Game) EXCEPT !.op = "on_key_press", !.side = s, !.name = axis, !.arg = d]
  /\ calls' = [calls EXCEPT !.inputs = @ + 1]
  /\ UNCHANGED << ball, em, pending_event, last_event_timer, state, countdown,
                  selected_player_for_material, err, hist >>

\* on_key_release for a movement key
key_release ==
  /\ err = "none"
  /\ calls.inputs < MaxInputs
  /\ \E s \in Sides, axis \in {"move_vert", "move_horz"} :
       /\ ~player[s].is_cpu
       /\ player' = [player EXCEPT ![s][axis] = 0]
       /\ obs' = [NoObs(Game) EXCEPT !.op = "on_key_release", !.side = s, !.name = axis]
  /\ calls' = [calls EXCEPT !.inputs = @ + 1]
  /\ UNCHANGED << ball, em, pending_event, last_event_timer, state, countdown,
                  selected_player_for_material, err, hist >>

\* GameView._toggle_pause (the button and the P key)
pause ==
  /\ err = "none"
  /\ calls.inputs < MaxInputs
  /\ state' = toggle_pause(state)
  /\ obs' = [NoObs(Game) EXCEPT !.op = "toggle_pause"]
  /\ calls' = [calls EXCEPT !.inputs = @ + 1]
  /\ UNCHANGED << ball, player, em, pending_event, last_event_timer, countdown,
                  selected_player_for_material, err, hist >>

select_material ==
  /\ calls.inputs < MaxInputs
  /\ apply_material

select_target ==
  /\ calls.inputs < MaxInputs
  /\ toggle_material_target

\* --- the states a behaviour starts from: the game as shown first, and games in play
Px(x, y, vx, vy) == [x |-> x * PX, y |-> y * PX, vx |-> vx, vy |-> vy]

\* balls in play: just launched; about to leave on either side; over and under the
\* left horizontal paddle; in front of either vertical paddle; at the floor and at
\* the top; and faster than BALL_MAX_SPEED after a bounce off rubber
PlayBalls ==
  { Ball_reset(1, [cos |-> TRIG, sin |-> 0]),
    Px(1240, 600, 1832, -300), Px(300, 600, -1832, -300),
    Px(380, 395, 0, -1350), Px(380, 325, 300, 1500),
    Px(400, 420, -1832, 0), Px(1140, 420, 1832, 0),
    Px(770, 160, 900, -1500), Px(770, 680, -900, 1500),
    Px(500, 500, 3016, 7839) }

\* the scheduler at the start of an interval, and one frame before it fires (SpecSched
\* reaches both)
SchedStates ==
  { [em |-> EventManager_init, pending_event |-> "none"],
    [em |-> [next_event_in |-> 2, warning_active |-> TRUE, warning_timer |-> 1],
     pending_event |-> "fire"] }

\* paddles where __init__ puts them, or held against a limit of their ranges
AtLimits(pl) ==
  [ s \in Sides |->
      [pl[s] EXCEPT !.vert.y = IF s = "left" THEN VertMaxY ELSE VertMinY,
                    !.horz.x = IF s = "left" THEN HorzMaxX(s) ELSE HorzMinX(s)] ]

InPlay(g, b, sc, limits) ==
  [g EXCEPT !.state = "playing", !.countdown = 0, !.ball = b, !.em = sc.em,
            !.pending_event = sc.pending_event,
            !.player = IF limits THEN AtLimits(g.player) ELSE g.player]

\* A game in play 178 frames of 1/60 after the frame in which a fire event burned all
\* four wooden paddles: both stun timers have 1/60 left, the warning and
\* last_event_timer have run out and next_event_in has gone from EVENT_INTERVAL down
\* by 178/60.
AfterFire(g, b) ==
  [g EXCEPT !.state = "playing", !.countdown = 0, !.ball = b,
            !.em = [EventManager_init EXCEPT
                      !.next_event_in = EVENT_INTERVAL * TPS - (FIRE_STUN_DURATION * TPS - 2)],
            !.player = [s \in Sides |->
                          [g.player[s] EXCEPT !.stun_timer = 1, !.vert.enabled = FALSE,
                                              !.horz.enabled = FALSE,
                                              !.vert.burned_out = TRUE,
                                              !.horz.burned_out = TRUE]]]

\* balls in play for which the scheduler is also taken one frame before it fires
FireBalls == {Px(1240, 600, 1832, -300), Px(380, 395, 0, -1350), Px(400, 420, -1832, 0)}

Scenarios ==
  LET shown == {on_show_view(GameView_init(mode)) : mode \in Modes}
      sched == CHOOSE sc \in SchedStates : sc.pending_event = "none"
      armed == CHOOSE sc \in SchedStates : sc.pending_event = "fire"
  IN shown
     \cup {[g EXCEPT !.countdown = MAX_DT + 1] : g \in shown}
     \cup {InPlay(g, b, sched, FALSE) : g \in shown, b \in PlayBalls}
     \cup {InPlay(g, b, armed, FALSE) : g \in shown, b \in FireBalls}
     \cup {InPlay(g, Ball_reset(1, [cos |-> TRIG, sin |-> 0]), sched, TRUE) : g \in shown}
     \cup {AfterFire(on_show_view(GameView_init("pvp")), Px(770, 500, 300, 600))}

Init == \E g \in Scenarios : StartFrom(g)

Next ==
  \/ Tick
  \/ key_press
  \/ key_release
  \/ pause
  \/ select_material
  \/ select_target

Spec == Init /\ [][Next]_vars

\* ------------------------------------------ the countdown's specification
\* The first round from the view as shown: the host calls on_update for every frame,
\* with dt > 0 (within the cap and above it), until the round is in play. The
\* countdown bounds the behaviour, so the calls are not counted.
FrameDts == {1, MAX_DT + 1}

CountdownStep ==
  /\ state = "countdown"
  /\ err = "none"
  /\ \E dt_in \in FrameDts, ev \in Events : \E l \in Launches(dt_in) :
       OnUpdateDone(dt_in, on_update(Game, dt_in, ev, l.dir, l.angle))
  /\ UNCHANGED << selected_player_for_material, calls >>

InitCountdown == \E mode \in Modes : StartFrom(on_show_view(GameView_init(mode)))

NextCountdown == CountdownStep

SpecCountdown == InitCountdown /\ [][NextCountdown]_vars /\ WF_vars(CountdownStep)

\* ------------------------------------------- the harness's specification
\* The operations called directly, as a test of the simulation calls them: on_update
\* with any dt, Ball.update, the two resolvers, _toggle_pause, Player.set_stun and
\* Player.set_material with any name. A behaviour starts from a game in play whose
\* ball the test has placed: in the field or beyond a goal line, at rest or moving.
HarnessPositions ==
  { [x |-> FIELD_CENTER_X, y |-> FIELD_CENTER_Y],
    [x |-> FIELD_RIGHT + BALL_RADIUS * PX + PX, y |-> FIELD_TOP - 120 * PX],
    [x |-> FIELD_RIGHT + BALL_RADIUS * PX + 100 * PX, y |-> FIELD_TOP - 120 * PX],
    [x |-> FIELD_RIGHT + BALL_RADIUS * PX + PX \div 10,
     y |-> FIELD_CENTER_Y - SegHalf("right").dy],
    [x |-> FIELD_LEFT - BALL_RADIUS * PX - PX, y |-> FIELD_TOP - 120 * PX],
    [x |-> VertX("left") + 20 * PX, y |-> FIELD_CENTER_Y],
    [x |-> VertX("right") - 20 * PX, y |-> FIELD_CENTER_Y + 30 * PX],
    [x |-> HorizontalPaddle_init("left").x, y |-> HorzY + 25 * PX],
    [x |-> HorizontalPaddle_init("left").x + 20 * PX, y |-> HorzY + 10 * PX],
    [x |-> HorizontalPaddle_init("left").x + 20 * PX, y |-> HorzY - 10 * PX] }

\* at rest; at the base speed either way; at and a little under BALL_MAX_SPEED;
\* above it, as a bounce off rubber leaves the ball; and (-300, -400) px/s
HarnessVelocities ==
  { [vx |-> 0, vy |-> 0],
    [vx |-> BALL_BASE_SPEED * VEL, vy |-> 0],
    [vx |-> -BALL_BASE_SPEED * VEL, vy |-> 0],
    [vx |-> -BALL_MAX_SPEED * VEL, vy |-> 0],
    [vx |-> 0, vy |-> 10 - BALL_MAX_SPEED * VEL],
    [vx |-> 3016, vy |-> 7839],
    [vx |-> -300 * VEL, vy |-> -400 * VEL] }

HarnessBalls ==
  { [x |-> p.x, y |-> p.y, vx |-> v.vx, vy |-> v.vy] :
      p \in HarnessPositions, v \in HarnessVelocities }

HarnessGames ==
  { InPlay(on_show_view(GameView_init("pvp")), b,
           [em |-> EventManager_init, pending_event |-> "none"], FALSE) :
      b \in HarnessBalls }

\* dt of a direct on_update call: negative, zero, within the cap and above it
HarnessDts == {-1, 0, 1, MAX_DT + 1}

\* durations of a direct set_stun call
StunDurations == {0, TPS \div 2, FIRE_STUN_DURATION * TPS}

\* a name that is no key of MATERIALS
UnknownNames == {"glass"}

Budget == calls.ticks + calls.inputs < MaxCalls

advance ==
  /\ Budget
  /\ OnUpdateStep(HarnessDts)

Ball_update_call ==
  /\ err = "none"
  /\ Budget
  /\ \E dt \in 0 .. MAX_DT :
       /\ ball' = Ball_update(ball, dt)
       /\ obs' = [NoObs(Game) EXCEPT !.op = "Ball_update", !.arg = dt, !.dt = dt,
                                     !.updated = Ball_update(ball, dt)]
       /\ hist' = [hist EXCEPT !.fall = FallAfter(@, dt)]
  /\ calls' = [calls EXCEPT !.ticks = @ + 1]
  /\ UNCHANGED << player, em, pending_event, last_event_timer, state, countdown,
                  selected_player_for_material, err >>

\* the variables after a resolver call for paddle id that returned r
CollideDone(id, r) ==
  /\ ball' = r.ball
  /\ err' = r.err
  /\ obs' = [NoObs(Game) EXCEPT !.op = "collide", !.name = id, !.side = Owner(id),
                                !.ret = r.hit, !.collided = r.ball]
  /\ hist' = [hist EXCEPT !.fall.ok = @ /\ r.ball = ball]

collide_call ==
  /\ err = "none"
  /\ Budget
  /\ \E id \in PaddleIds : CollideDone(id, Resolve(ball, player, id))
  /\ calls' = [calls EXCEPT !.ticks = @ + 1]
  /\ UNCHANGED << player, em, pending_event, last_event_timer, state, countdown,
                  selected_player_for_material >>

\* _toggle_pause called directly
toggle_pause_call ==
  /\ err = "none"
  /\ Budget
  /\ state' = toggle_pause(state)
  /\ obs' = [NoObs(Game) EXCEPT !.op = "toggle_pause"]
  /\ calls' = [calls EXCEPT !.inputs = @ + 1]
  /\ UNCHANGED << ball, player, em, pending_event, last_event_timer, countdown,
                  selected_player_for_material, err, hist >>

set_stun_call ==
  /\ err = "none"
  /\ Budget
  /\ \E s \in Sides, d \in StunDurations :
       /\ player' = [player EXCEPT ![s] = Player_set_stun(@, d)]
       /\ obs' = [NoObs(Game) EXCEPT !.op = "set_stun", !.side = s, !.arg = d]
  /\ calls' = [calls EXCEPT !.inputs = @ + 1]
  /\ UNCHANGED << ball, em, pending_event, last_event_timer, state, countdown,
                  selected_player_for_material, err, hist >>

set_material_call ==
  /\ err = "none"
  /\ Budget
  /\ \E s \in Sides, name \in MaterialNames \cup UnknownNames :
       /\ player' = [player EXCEPT ![s] = Player_set_material(@, name)]
       /\ obs' = [NoObs(Game) EXCEPT !.op = "set_material", !.side = s, !.name = name]
       /\ hist' = [hist EXCEPT !.inert = @ \ PaddlesOf(s)]
  /\ calls' = [calls EXCEPT !.inputs = @ + 1]
  /\ UNCHANGED << ball, em, pending_event, last_event_timer, state, countdown,
                  selected_player_for_material, err >>

InitHarness == \E g \in HarnessGames : StartFrom(g)

NextHarness ==
  \/ advance
  \/ Ball_update_call
  \/ collide_call
  \/ toggle_pause_call
  \/ set_stun_call
  \/ set_material_call

SpecHarness == InitHarness /\ [][NextHarness]_vars

\* ------------------------------------------------------------- properties
\* what a goal for side does to the game of the call before which it was obs.pre
GoalScored(side) ==
  /\ player[side].score = obs.pre.player[side].score + 1
  /\ player[Other(side)].score = obs.pre.player[Other(side)].score
  /\ state = "countdown"
  /\ ball.x = FIELD_CENTER_X
  /\ ball.y = FIELD_CENTER_Y

\* the last call was on_update, made in the playing state
PlayingTickDone == obs.op = "on_update" /\ obs.pre.state = "playing"

HorzIds == {"left_horz", "right_horz"}

\* C3: after a collision registered by the horizontal resolver the ball's vertical
\* velocity points along the chosen normal: upward when the ball was put above the
\* paddle, downward when it was put below.
C3_KickedAlongNormal ==
  (obs.op = "on_update" /\ obs.hits \cap HorzIds # {}) =>
    /\ obs.collided.y > HorzY => obs.collided.vy > 0
    /\ obs.collided.y < HorzY => obs.collided.vy < 0

\* a ball at rest at the middle of paddle id
Probe(pl, id) ==
  IF id \in HorzIds
  THEN [x |-> PaddleOf(pl, id).x, y |-> HorzY, vx |-> 0, vy |-> 0]
  ELSE [x |-> VertX(Owner(id)), y |-> PaddleOf(pl, id).y, vx |-> 0, vy |-> 0]

\* the resolver of paddle id registers no collision with a ball at its middle and
\* leaves that ball unchanged
Inert(pl, id) == Resolve(Probe(pl, id), pl, id) = NoCollision(Probe(pl, id))

\* C4 (as stated): a paddle that a fire event has set burned_out registers no
\* collision, whatever ball meets it, until its owner has selected a material.
C4_InertUntilReselected == \A id \in hist.inert : Inert(player, id)

\* no paddle hit by the last on_update call was burned out before the call or burned
\* by the event the call applied
NoHitWhileBurned ==
  obs.op = "on_update" =>
    \A id \in obs.hits : ~PaddleOf(obs.pre.player, id).burned_out /\ id \notin obs.sched.burned

\* burned_out is cleared only by the owner's set_material or by the reset of the round
\* after a goal
RepairedBy ==
  \A id \in PaddleIds :
    (PaddleOf(player, id).burned_out /\ ~PaddleOf(player', id).burned_out) =>
      \/ obs'.op = "set_material" /\ obs'.side = Owner(id)
      \/ obs'.op = "on_update" /\ obs'.goal # "none"

\* C4 (amended): while a paddle is burned_out neither resolver registers a collision
\* with it and the ball is left unchanged, and the paddle stays burned_out until its
\* owner selects a material or a goal resets the round.
C4_InertWhileBurnedOut ==
  /\ [](NoHitWhileBurned /\ \A id \in PaddleIds : PaddleOf(player, id).burned_out => Inert(player, id))
  /\ [][RepairedBy]_vars

Unburned(pl) ==
  [s \in Sides |-> [pl[s] EXCEPT !.vert.burned_out = FALSE, !.horz.burned_out = FALSE]]

\* a tick, later than the fire, in which the ball passed through a burned-out paddle
\* that would have registered the collision
C4_Witness ==
  /\ PlayingTickDone
  /\ \E id \in hist.inert :
       /\ PaddleOf(obs.pre.player, id).burned_out
       /\ PaddleOf(player, id).burned_out
       /\ id \notin obs.hits
       /\ Resolve(obs.updated, Unburned(obs.pre.player), id).hit

\* C5: set_material with a name that is no key of MATERIALS fails with
\* InvalidMaterial and leaves the players as they were.
C5_UnknownMaterialRejected ==
  (obs.op = "set_material" /\ obs.name \notin MaterialNames) =>
    /\ err = "InvalidMaterial"
    /\ player = obs.pre.player

\* C6: the dt an on_update call uses is >= 0, and the call increases neither the
\* countdown nor the time to the next event.
C6_DtNonNegative ==
  obs.op = "on_update" =>
    /\ obs.dt >= 0
    /\ obs.pre.state = "countdown" => countdown <= obs.pre.countdown
    /\ (obs.pre.state = "playing" /\ ~obs.sched.applied) =>
         em.next_event_in <= obs.pre.em.next_event_in

\* C7: each vertical paddle's y is within [FIELD_BOTTOM + length/2, FIELD_TOP - length/2].
C7_VerticalPaddleInRange ==
  \A s \in Sides : VertMinY <= player[s].vert.y /\ player[s].vert.y <= VertMaxY

\* a tick in which the left vertical paddle, at the top of its range, was moved up
C7_Witness ==
  /\ obs.op = "on_update"
  /\ obs.dt > 0
  /\ obs.pre.player["left"].vert.y = VertMaxY
  /\ obs.pre.player["left"].move_vert = 1
  /\ obs.pre.player["left"].stun_timer = 0
  /\ player["left"].vert.y = VertMaxY

\* C8: each horizontal paddle's x is within its side's range, the left range ending
\* strictly left of FIELD_CENTER_X and the right range starting strictly right of it.
C8_HorizontalPaddleOnOwnSide ==
  /\ \A s \in Sides : HorzMinX(s) <= player[s].horz.x /\ player[s].horz.x <= HorzMaxX(s)
  /\ HorzMaxX("left") < FIELD_CENTER_X
  /\ FIELD_CENTER_X < HorzMinX("right")
  /\ player["left"].horz.x < FIELD_CENTER_X
  /\ FIELD_CENTER_X < player["right"].horz.x

\* a tick in which the left horizontal paddle, at the inner end of its range, was
\* moved towards the centre line
C8_Witness ==
  /\ obs.op = "on_update"
  /\ obs.dt > 0
  /\ obs.pre.player["left"].horz.x = HorzMaxX("left")
  /\ obs.pre.player["left"].move_horz = 1
  /\ obs.pre.player["left"].stun_timer = 0
  /\ player["left"].horz.x = HorzMaxX("left")

\* vy after the gravity step of the last Ball.update call
SteppedVy == obs.pre.ball.vy + (GRAVITY * VEL * obs.dt) \div TPS

\* C9: after a Ball.update call with dt in [0, 1/30] the ball's speed is at most
\* BALL_MAX_SPEED, up to two velocity units of rounding, and a clamped velocity has
\* the direction of the unclamped one, up to one unit of rounding in each component.
C9_SpeedCapped ==
  obs.op = "Ball_update" =>
    /\ ball.vx * ball.vx + ball.vy * ball.vy
         <= (BALL_MAX_SPEED * VEL + 2) * (BALL_MAX_SPEED * VEL + 2)
    /\ TooFast(obs.pre.ball.vx, SteppedVy) =>
         /\ Abs(ball.vx * SteppedVy - ball.vy * obs.pre.ball.vx)
              <= Abs(obs.pre.ball.vx) + Abs(SteppedVy)
         /\ ball.vx * obs.pre.ball.vx + ball.vy * SteppedVy > 0

\* a Ball.update call that clamped a velocity with both components nonzero
C9_Witness ==
  /\ obs.op = "Ball_update"
  /\ obs.dt > 0
  /\ TooFast(obs.pre.ball.vx, SteppedVy)
  /\ ball.vx # 0
  /\ ball.vy # 0
  /\ ball.vx # obs.pre.ball.vx

\* C10: a set_stun(d) call leaves stun_timer = max(stun_timer before, d), never less
\* than before; after set_stun(d1) then set_stun(d2) on the same player it is
\* max(stun_timer before both, d1, d2).
C10_StunIsMax ==
  obs.op = "set_stun" =>
    /\ player[obs.side].stun_timer = Max(obs.pre.player[obs.side].stun_timer, obs.arg)
    /\ player[obs.side].stun_timer >= obs.pre.player[obs.side].stun_timer
    /\ (obs.last.op = "set_stun" /\ obs.last.side = obs.side) =>
         player[obs.side].stun_timer
           = Max(Max(obs.last.stun[obs.side], obs.last.arg), obs.arg)

\* a longer stun followed by a shorter one on the same player: the longer one stays
C10_Witness ==
  /\ obs.op = "set_stun"
  /\ obs.last.op = "set_stun"
  /\ obs.last.side = obs.side
  /\ 0 < obs.arg
  /\ obs.arg < obs.last.arg
  /\ player[obs.side].stun_timer = obs.last.arg

\* C11: an on_update call in the paused state changes nothing but last_event_timer,
\* which it decrements by the dt it uses when it is positive: ball, players (paddles,
\* intents, stun timers, scores), countdown, scheduler and pending event are as before,
\* and no event is applied.
C11_PausedFrozen ==
  (obs.op = "on_update" /\ obs.pre.state = "paused") =>
    /\ Game = [obs.pre EXCEPT !.last_event_timer = last_event_timer]
    /\ last_event_timer = IF obs.pre.last_event_timer > 0
                          THEN obs.pre.last_event_timer - obs.dt
                          ELSE obs.pre.last_event_timer
    /\ ~obs.sched.applied

\* a paused tick with a moving ball and the last event's message still shown
C11_Witness ==
  /\ obs.op = "on_update"
  /\ obs.pre.state = "paused"
  /\ obs.dt > 0
  /\ obs.pre.ball.vx # 0
  /\ obs.pre.last_event_timer > 0
  /\ last_event_timer = obs.pre.last_event_timer - obs.dt
  /\ state = "paused"

\* the last call was an on_update call made in the countdown state
CountdownTickDone == obs.op = "on_update" /\ obs.pre.state = "countdown"

\* the scheduler and the pending event are as before the last call, which applied no
\* event
SchedulerFrozen ==
  /\ em = obs.pre.em
  /\ pending_event = obs.pre.pending_event
  /\ ~obs.sched.applied
  /\ ~obs.sched.warned

\* the last call moved the paddles of side s, when they can move (no stun, not burned
\* out), by the player's intent times speed times the dt used, within their ranges;
\* the intents of a manual player are as before
PaddlesMovedByIntent(s) ==
  /\ ~player[s].is_cpu =>
       /\ player[s].move_vert = obs.pre.player[s].move_vert
       /\ player[s].move_horz = obs.pre.player[s].move_horz
  /\ (obs.pre.player[s].stun_timer <= 0 /\ ~obs.pre.player[s].vert.burned_out) =>
       player[s].vert.y =
         clamp(obs.pre.player[s].vert.y + player[s].move_vert * VERT_PADDLE_SPEED * VEL * obs.dt,
               VertMinY, VertMaxY)
  /\ (obs.pre.player[s].stun_timer <= 0 /\ ~obs.pre.player[s].horz.burned_out) =>
       player[s].horz.x =
         clamp(obs.pre.player[s].horz.x + player[s].move_horz * HOR_PADDLE_SPEED * VEL * obs.dt,
               HorzMinX(s), HorzMaxX(s))

\* C12 (as stated): an on_update call in the countdown state leaves the ball's position
\* and velocity and the scheduler unchanged and applies no event, while the paddles
\* move according to the players' intents.
C12_CountdownBallFrozen ==
  CountdownTickDone =>
    /\ ball = obs.pre.ball
    /\ SchedulerFrozen
    /\ \A s \in Sides : PaddlesMovedByIntent(s)

\* C12 (amended): the same, the ball's velocity being unchanged only while the state
\* stays countdown: the call in which the countdown reaches 0 sets the state to
\* playing and launches the ball from where it is with a nonzero vx.
C12_CountdownFreezesUntilExpiry ==
  CountdownTickDone =>
    /\ ball.x = obs.pre.ball.x
    /\ ball.y = obs.pre.ball.y
    /\ countdown = obs.pre.countdown - obs.dt
    /\ state = (IF countdown > 0 THEN "countdown" ELSE "playing")
    /\ state = "countdown" => ball = obs.pre.ball
    /\ state = "playing" => ball.vx # 0
    /\ SchedulerFrozen
    /\ \A s \in Sides : PaddlesMovedByIntent(s)

\* a countdown tick that moved the left player's vertical paddle and left the ball and
\* the scheduler as they were
C12_Witness ==
  /\ CountdownTickDone
  /\ state = "countdown"
  /\ obs.dt > 0
  /\ ball = obs.pre.ball
  /\ em = obs.pre.em
  /\ player["left"].move_vert # 0
  /\ player["left"].vert.y # obs.pre.player["left"].vert.y

\* v * a * b * c for three coefficients in hundredths, the factors taken last to first
Product3(v, a, b, c) == RDiv(RDiv(RDiv(v * c, PCT) * b, PCT) * a, PCT)

\* the last call was a call of the horizontal resolver that registered a collision
HorzCollisionDone == obs.op = "collide" /\ obs.name \in HorzIds /\ obs.ret

\* the material of the paddle the last resolver call was made for
HitMaterial == MATERIALS[PaddleOf(player, obs.name).material_name]

\* C13: a collision registered by the horizontal resolver with incoming (vx, vy) and
\* material m leaves vy = (|vy| + 520) * m.bounce * m.power * BALL_BOUNCE_DAMP and
\* vx = vx * m.bounce * (1 - m.friction) * BALL_BOUNCE_DAMP, up to two velocity units
\* of rounding, and puts a ball that was at or above the paddle's centre at
\* paddle.y + thickness/2 + radius + 0.5 with its x unchanged.
C13_HorizontalResponse ==
  HorzCollisionDone =>
    /\ Abs(ball.vy - Product3(Abs(obs.pre.ball.vy) + UPKICK * VEL, HitMaterial.bounce,
                              HitMaterial.power, BALL_BOUNCE_DAMP)) <= 2
    /\ Abs(ball.vx - Product3(obs.pre.ball.vx, HitMaterial.bounce,
                              PCT - HitMaterial.friction, BALL_BOUNCE_DAMP)) <= 2
    /\ ball.x = obs.pre.ball.x
    /\ obs.pre.ball.y >= HorzY =>
         ball.y = HorzY + (HOR_PADDLE_THICKNESS * PX) \div 2 + BALL_RADIUS * PX + PX \div 2

\* the wooden paddle met from above at (-300, -400) px/s: vy = 920 * 0.95 * 1.0 * 0.98
C13_Witness ==
  /\ HorzCollisionDone
  /\ PaddleOf(player, obs.name).material_name = "wood"
  /\ obs.pre.ball.vx = -300 * VEL
  /\ obs.pre.ball.vy = -400 * VEL
  /\ obs.pre.ball.y > HorzY
  /\ ball.y > obs.pre.ball.y
  /\ Abs(ball.vy - ((920 * VEL * 95 * 98) \div (PCT * PCT))) <= 2

\* the ball has fallen from rest at the field centre through Ball.update calls only,
\* for a total time hist.fall.t > 0
FreeFallDone == obs.op = "Ball_update" /\ hist.fall.ok /\ hist.fall.t > 0

\* C14 (as stated): after Ball.update ticks totalling time t from rest at the field
\* centre, vy = GRAVITY * t and y = FIELD_CENTER_Y + GRAVITY * t^2 / 2, to within one
\* unit of the model.
C14_FreeFallClosedForm ==
  FreeFallDone =>
    /\ ball.vy = (GRAVITY * VEL * hist.fall.t) \div TPS
    /\ Abs(ball.y - (FIELD_CENTER_Y
                     + (GRAVITY * PX * hist.fall.t * hist.fall.t) \div (2 * TPS * TPS))) <= 1

\* C14 (amended): vy = GRAVITY * t, and y = FIELD_CENTER_Y + GRAVITY * (t^2 + S) / 2
\* where S is the sum of the squares of the ticks' dt; x and vx are unchanged.
C14_FreeFallStepwise ==
  FreeFallDone =>
    /\ ball.vy = (GRAVITY * VEL * hist.fall.t) \div TPS
    /\ ball.y = FIELD_CENTER_Y
                + (GRAVITY * PX * (hist.fall.t * hist.fall.t + hist.fall.sq)) \div (2 * TPS * TPS)
    /\ ball.x = FIELD_CENTER_X
    /\ ball.vx = 0

\* two ticks of different dt from rest at the field centre
C14_Witness ==
  /\ FreeFallDone
  /\ obs.last.op = "Ball_update"
  /\ obs.last.arg # obs.arg
  /\ obs.arg > 0
  /\ obs.last.arg > 0
  /\ ball.y < FIELD_CENTER_Y

\* an on_update call has returned
OnUpdateReturned == obs.op = "on_update"

\* the timers of the round controller and of the scheduler lost at most 1/30
ControllerTimersWithinCap ==
  /\ obs.pre.countdown - countdown <= MAX_DT
  /\ obs.pre.last_event_timer - last_event_timer <= MAX_DT
  /\ obs.pre.em.next_event_in - em.next_event_in <= MAX_DT
  /\ obs.pre.em.warning_timer - em.warning_timer <= MAX_DT

\* every paddle moved by at most its speed * 1/30
PaddlesWithinCap ==
  \A s \in Sides :
    /\ Abs(player[s].vert.y - obs.pre.player[s].vert.y) <= VERT_PADDLE_SPEED * VEL * MAX_DT
    /\ Abs(player[s].horz.x - obs.pre.player[s].horz.x) <= HOR_PADDLE_SPEED * VEL * MAX_DT

\* b is within the reach, in 1/30, of a ball that leaves obs.pre.ball with the
\* velocity Ball.update moves it with (vx, and vy after the gravity step)
BallWithinCap(b) ==
  /\ Abs(b.x - obs.pre.ball.x) <= Abs(obs.pre.ball.vx) * MAX_DT
  /\ Abs(b.y - obs.pre.ball.y)
       <= Abs(obs.pre.ball.vy + (GRAVITY * VEL * obs.dt) \div TPS) * MAX_DT

CollisionDone == obs.op = "collide" /\ obs.ret

\* the paddles handled by the resolver that handles paddle id
SameResolver(id) == IF id \in HorzIds THEN HorzIds ELSE PaddleIds \ HorzIds

\* the contact normal the vertical resolver computes for ball b and paddle id; none
\* (the zero vector) for a ball too far from the paddle to collide
VertNormalAt(b, c) == ContactNormal(normalize(b.x - c.cx, b.y - c.cy))

VertNormalOn(b, seg) ==
  VertNormalAt(b, closest_point_on_segment(b.x, b.y, seg.x1, seg.y1, seg.x2, seg.y2))

VertNormal(b, pl, id) ==
  IF FarFromVertical(b, PaddleOf(pl, id), Owner(id)) THEN [x |-> 0, y |-> 0]
  ELSE VertNormalOn(b, get_segment(PaddleOf(pl, id), Owner(id)))

\* Second runs of the resolver of the call observed: the ball has the velocity the
\* observed call started with and is at any of the harness's positions or a little
\* to the right of or below one, the vertical paddles are where they were or lower
\* by the same amount, and the paddle has the material of the paddle observed.
RunOffsets == {0, -40 * PX}

SecondRuns ==
  { [ ball |-> [x |-> p.x + dx, y |-> p.y + dy, vx |-> obs.pre.ball.vx, vy |-> obs.pre.ball.vy],
      player |-> [s \in Sides |-> [obs.pre.player[s] EXCEPT !.vert.y = @ + py]],
      id |-> id ] :
      p \in HarnessPositions, dx \in {0, 10 * PX}, dy \in RunOffsets, py \in RunOffsets,
      id \in SameResolver(obs.name) }

SameMaterial(run) ==
  PaddleOf(run.player, run.id).material_name = PaddleOf(obs.pre.player, obs.name).material_name

\* the run registers a collision and leaves the ball with the velocity observed
SameResponse(r) == r.hit => r.ball.vx = ball.vx /\ r.ball.vy = ball.vy

\* C16 (as stated): two runs of a resolver that start with the same ball velocity and
\* the same paddle material and both register a collision end with the same ball
\* velocity.
C16_VelocityAndMaterialDecide ==
  CollisionDone =>
    \A run \in SecondRuns :
      SameMaterial(run) => SameResponse(Resolve(run.ball, run.player, run.id))

\* C16 (amended): for the horizontal resolver the same velocity and material give the
\* same response; for the vertical resolver they do when the contact normal is the
\* same as well.
C16_ResponseDeterminedByContact ==
  CollisionDone =>
    \A run \in SecondRuns :
      /\ SameMaterial(run)
      /\ obs.name \notin HorzIds =>
           VertNormal(run.ball, run.player, run.id) = VertNormal(obs.pre.ball, obs.pre.player, obs.name)
      => SameResponse(Resolve(run.ball, run.player, run.id))

\* a second run that registers a collision elsewhere: of the horizontal resolver on
\* the other face of the paddle, of the vertical resolver with ball and paddle lower
C16_Witness ==
  /\ CollisionDone
  /\ obs.pre.ball.vx # 0
  /\ \E run \in SecondRuns :
       /\ SameMaterial(run)
       /\ run.ball.y # obs.pre.ball.y
       /\ obs.name \notin HorzIds =>
            VertNormal(run.ball, run.player, run.id) = VertNormal(obs.pre.ball, obs.pre.player, obs.name)
       /\ Resolve(run.ball, run.player, run.id).hit

\* on_update has called Player.update for a player whose stun_timer was positive, and
\* has not reset the round afterwards
UpdatedWhileStunned(s) ==
  /\ OnUpdateReturned
  /\ obs.pre.state # "paused"
  /\ obs.goal = "none"
  /\ obs.pre.player[s].stun_timer > 0

\* C17: when Player.update is entered with stun_timer > 0, for manual and auto-
\* controlled players alike, on return both paddles are disabled, move_vert and
\* move_horz are 0 and neither paddle has moved.
C17_StunOverridesIntent ==
  \A s \in Sides :
    UpdatedWhileStunned(s) =>
      /\ ~player[s].vert.enabled
      /\ ~player[s].horz.enabled
      /\ player[s].move_vert = 0
      /\ player[s].move_horz = 0
      /\ player[s].vert.y = obs.pre.player[s].vert.y
      /\ player[s].horz.x = obs.pre.player[s].horz.x

\* C18: in every reachable state the warning flag is raised only while an event is
\* pending, and it is down at the end of an EventManager.update call that applied an
\* event.
C18_WarningOnlyWhilePending ==
  /\ em.warning_active => pending_event # "none"
  /\ (obs.op = "EventManager_update" /\ obs.sched.applied) => ~em.warning_active

\* C19: in the playing state, a tick that ends with ball.x - radius < FIELD_LEFT scores
\* for the right player and one that ends with ball.x + radius > FIELD_RIGHT scores
\* for the left player (obs.collided is the ball at the end of the tick, before a
\* goal's round reset).
C19_GoalAtLeadingEdge ==
  (PlayingTickDone /\ err = "none") =>
    /\ obs.collided.x - BALL_RADIUS * PX < FIELD_LEFT => obs.goal = "right"
    /\ obs.collided.x + BALL_RADIUS * PX > FIELD_RIGHT => obs.goal = "left"

\* C20: stun_timer >= 0 for both players in every reachable state.
C20_StunTimerNonNegative == \A s \in Sides : player[s].stun_timer >= 0

\* the last call was an on_update that scored a goal
GoalTickDone == OnUpdateReturned /\ obs.goal # "none"

\* C21: a goal's round reset clears burned_out on all four paddles, sets both stun
\* timers to 0 and re-enters countdown with countdown = 3.0; it leaves the scores as
\* the goal made them, and no call changes a score but a goal, by +1 for the side
\* that scored.
C21_GoalResetsRoundNotScores ==
  /\ GoalTickDone =>
       /\ \A id \in PaddleIds : ~PaddleOf(player, id).burned_out
       /\ \A s \in Sides : player[s].stun_timer = 0
       /\ state = "countdown"
       /\ countdown = COUNTDOWN_START * TPS
       /\ player[obs.goal].score = obs.pre.player[obs.goal].score + 1
  /\ \A s \in Sides :
       \/ player[s].score = obs.pre.player[s].score
       \/ GoalTickDone /\ obs.goal = s /\ player[s].score = obs.pre.player[s].score + 1

\* a goal scored while all paddles were burned out and both players stunned
C21_Witness ==
  /\ GoalTickDone
  /\ \A id \in PaddleIds : PaddleOf(obs.pre.player, id).burned_out
  /\ \A s \in Sides : obs.pre.player[s].stun_timer > 0
  /\ player[obs.goal].score = 1

\* the last call was an EventManager.update that applied the fire event
FireApplied == obs.op = "EventManager_update" /\ obs.sched.applied /\ obs.sched.event = "fire"

\* the player p as a fire leaves it when its material is burnable
Burned(p) ==
  [p EXCEPT !.vert.burned_out = TRUE, !.horz.burned_out = TRUE,
            !.stun_timer = Max(@, FIRE_STUN_DURATION * TPS)]

\* C22: FireEvent.apply burns and stuns exactly the players whose material is
\* burnable in MATERIALS: both paddles burned_out and stun_timer = max(stun_timer,
\* FIRE_STUN_DURATION); a player with a non-burnable material is unchanged.
C22_FireBurnsBurnable ==
  FireApplied =>
    \A s \in Sides :
      get_material(obs.pre.player[s]) \in MaterialNames =>
        player[s] = IF MATERIALS[get_material(obs.pre.player[s])].burnable
                    THEN Burned(obs.pre.player[s])
                    ELSE obs.pre.player[s]

\* a fire applied to a player on wood and a player on a non-burnable material
C22_Witness ==
  /\ FireApplied
  /\ \E s \in Sides : /\ MATERIALS[get_material(obs.pre.player[s])].burnable
                      /\ player[s].vert.burned_out
                      /\ ~obs.pre.player[s].vert.burned_out
  /\ \E s \in Sides : /\ ~MATERIALS[get_material(obs.pre.player[s])].burnable
                      /\ ~player[s].vert.burned_out

\* the coordinate a paddle's update moves: y of a vertical paddle, x of a horizontal
PositionOf(pl, id) == IF id \in HorzIds THEN PaddleOf(pl, id).x ELSE PaddleOf(pl, id).y

\* on_update has called the update of paddle id while the paddle was disabled (its
\* owner's stun_timer was positive when Player.update was entered) or burned out
\* (before the call, or by the fire event the call applied)
UpdatedWhileOff(id) ==
  /\ OnUpdateReturned
  /\ obs.pre.state # "paused"
  /\ \/ obs.pre.player[Owner(id)].stun_timer > 0
     \/ PaddleOf(obs.pre.player, id).burned_out
     \/ id \in obs.sched.burned

\* C23: across a tick in which a paddle is disabled or burned out at the time of its
\* update, the paddle's position is unchanged, whatever move_dir and dt.
C23_OffPaddleStays ==
  \A id \in PaddleIds :
    UpdatedWhileOff(id) => PositionOf(player, id) = PositionOf(obs.pre.player, id)

\* a tick with dt > 0 in which a player who is no longer stunned asks the vertical
\* paddle to move, and the paddle is burned out and stays
C23_Witness ==
  /\ OnUpdateReturned
  /\ obs.pre.state = "playing"
  /\ obs.dt > 0
  /\ \E s \in Sides :
       /\ obs.pre.player[s].stun_timer <= 0
       /\ obs.pre.player[s].vert.burned_out
       /\ player[s].vert.enabled
       /\ player[s].move_vert # 0
       /\ player[s].vert.y = obs.pre.player[s].vert.y

\* the last call was _toggle_pause
ToggleDone == obs.op = "toggle_pause"

\* C24: paused is entered only from playing and left only to playing, both by the
\* pause toggle; the toggle changes nothing in countdown; two toggles in a row from
\* playing give back the game as it was; countdown is entered after construction only
\* by a goal's round reset.
C24_RoundStateMachine ==
  /\ (state = "paused" /\ obs.pre.state # "paused") =>
       ToggleDone /\ obs.pre.state = "playing"
  /\ (obs.pre.state = "paused" /\ state # "paused") =>
       ToggleDone /\ state = "playing"
  /\ ToggleDone => Game = [obs.pre EXCEPT !.state = state]
  /\ (ToggleDone /\ obs.pre.state = "countdown") => Game = obs.pre
  /\ (ToggleDone /\ obs.last.op = "toggle_pause" /\ obs.last.game.state = "playing") =>
       Game = obs.last.game
  /\ (state = "countdown" /\ obs.pre.state # "countdown") => GoalTickDone

\* two toggles in a row from playing: paused in between, playing again
C24_Witness ==
  /\ ToggleDone
  /\ obs.last.op = "toggle_pause"
  /\ obs.last.game.state = "playing"
  /\ obs.pre.state = "paused"
  /\ state = "playing"

\* the last call was the on_update in which the countdown expired
ExpiryTickDone == CountdownTickDone /\ state = "playing"

\* the round is in play exactly when the dt used since the view was shown adds up to
\* COUNTDOWN_START, and the tick that reached it has launched the ball from the field
\* centre with a horizontal velocity
ExpiresOnTime ==
  /\ state = "playing" <=> hist.elapsed >= COUNTDOWN_START * TPS
  /\ state = "countdown" => countdown = COUNTDOWN_START * TPS - hist.elapsed
  /\ ExpiryTickDone =>
       /\ hist.elapsed - obs.dt < COUNTDOWN_START * TPS
       /\ ball.x = FIELD_CENTER_X
       /\ ball.y = FIELD_CENTER_Y
       /\ ball.vx # 0

\* C25: from countdown = 3.0, under repeated ticks with dt > 0 the state eventually
\* becomes playing, on the first tick at which the accumulated capped dt reaches 3.0
\* and not before, and that tick launches the ball from the field centre with a
\* non-zero horizontal velocity.
C25_CountdownExpires == []ExpiresOnTime /\ <>(state = "playing")

\* the countdown has expired on a tick that brought the accumulated dt to exactly 3.0
C25_Witness ==
  /\ ExpiryTickDone
  /\ hist.elapsed = COUNTDOWN_START * TPS
  /\ obs.arg > MAX_DT
  /\ ball.vx < 0

\* the last call was Player.set_material, for the player obs.side with the name obs.name
SetMaterialDone == obs.op = "set_material"

\* C26: in every reachable state a player's two paddles carry the same material, and
\* Player.set_material(name) leaves both paddles with that material and not burned
\* out, also when name is the material they have.
C26_OneMaterialPerPlayer ==
  /\ \A s \in Sides : player[s].vert.material_name = player[s].horz.material_name
  /\ SetMaterialDone =>
       /\ player[obs.side].vert.material_name = obs.name
       /\ player[obs.side].horz.material_name = obs.name
       /\ ~player[obs.side].vert.burned_out
       /\ ~player[obs.side].horz.burned_out

\* the material a player has is selected again while both paddles are burned out
C26_Witness ==
  /\ SetMaterialDone
  /\ get_material(obs.pre.player[obs.side]) = obs.name
  /\ obs.pre.player[obs.side].vert.burned_out
  /\ obs.pre.player[obs.side].horz.burned_out
  /\ ~player[obs.side].horz.burned_out

\* the last call was an EventManager.update (direct, or within on_update) that applied
\* an event
EventApplied == obs.op \in {"EventManager_update", "on_update"} /\ obs.sched.applied

\* C27: for ticks with 0 < dt <= 1/30, whenever next_event_in reaches zero a pending
\* event chosen by a warning is present: the fallback selection is never taken, and
\* pending_event is None at the end of every tick that applied an event.
C27_FallbackNeverTaken ==
  /\ hist.fallbacks = 0
  /\ EventApplied =>
       /\ ~obs.sched.fallback
       /\ obs.sched.event \in Events
       /\ pending_event = "none"
       /\ obs.pre.pending_event # "none" \/ obs.sched.warned

\* the second application: its interval began with the pending slot empty and the
\* warning flag still up
C27_Witness ==
  /\ EventApplied
  /\ hist.applications = MaxEvents
  /\ obs.pre.pending_event = "fire"
  /\ pending_event = "none"

====
